---------------------------- MODULE Spec2Model ----------------------------
(***************************************************************************)
(* Model of the swap transaction status checker.                           *)
(*                                                                         *)
(*   SpecFetch     the windowed log fetcher, utils/api_client.py           *)
(*                 fetch_logs                                              *)
(*   Spec          the orchestrator, utils/transaction_utils.py            *)
(*                 transaction_status, with the functions it calls         *)
(*   SpecFilter    analyze_bit_ponder_logs on its own                      *)
(*   SpecClassify  the classification of step 4 on its own                 *)
(*   SpecLive      transaction_status with a silent collaborator           *)
(*   SpecEndpoint  main.py get_transaction_status                          *)
(*   SpecStore     fetch_db_info and fetch_matched_order_ids on their own  *)
(*   SpecRanges    the range normalisation of both fetch_logs              *)
(*                                                                         *)
(* Times are whole seconds.  A log line carries the second and the         *)
(* sub-second part of its timestamp separately, since the nanosecond       *)
(* value of the log API does not fit a TLC integer.                        *)
(***************************************************************************)
EXTENDS Integers, Sequences, FiniteSets, TLC

(***************************************************************************)
(* Program constants                                                       *)
(***************************************************************************)
WINDOW_SECONDS == 172800
MIN_WINDOW_SECONDS == 60
MAX_LOOKBACK == 30 * 24 * 3600
NANOS_PER_SECOND == 1000000000

(***************************************************************************)
(* Bounds of the model                                                     *)
(***************************************************************************)
\* largest page-size limit a call is made with
MaxLimit == 2
\* the log API hands out at most this many lines during one call
MaxLogs == 2

NoneT == -1

Min(a, b) == IF a <= b THEN a ELSE b
Max(a, b) == IF a >= b THEN a ELSE b

SeqToSet(s) == {s[i] : i \in 1..Len(s)}

RECURSIVE SeqMax(_, _)
SeqMax(s, floor) == IF s = <<>> THEN floor ELSE SeqMax(Tail(s), Max(floor, Head(s)))

NoDuplicates(s) == \A i, j \in 1..Len(s) : i # j => s[i] # s[j]

(***************************************************************************)
(* The log API's world                                                     *)
(***************************************************************************)
Containers == {"/staging-evm-relay", "/stage-bit-ponder"}

\* the lines a log source may hold: message, second, sub-second nanoseconds
LogLines ==
    { [msg |-> "a", sec |-> 30,     nsec |-> 0],
      [msg |-> "b", sec |-> 172810, nsec |-> 500000000],
      [msg |-> "c", sec |-> 2500000, nsec |-> 0] }

\* the (start_time, end_time) arguments of a call; NoneT: no end_time given
CallRanges ==
    { <<0, 30>>, <<0, 86400>>, <<0, 172830>>, <<172830, 0>>,
      <<0, 2600000>>, <<0, NoneT>> }

\* time.time() at the call
Now == 345600

\* the pages the log API may answer with: at most n lines of the source,
\* no line twice in one page
Pages(S, n) ==
    {p \in UNION {[1..k -> S] : k \in 0..n} : NoDuplicates(p)}

\* the lines of S whose timestamp lies in [from, to]
InWindow(S, from, to) ==
    {l \in S : l.sec >= from /\ (l.sec < to \/ (l.sec = to /\ l.nsec = 0))}

VARIABLES
    \* api_client.fetch_logs: arguments and Config.API_TOKEN
    args, container, limit, api_token,
    \* api_client.fetch_logs: locals
    start_time, end_time, current_start, raw_logs, iteration, seen_ranges,
    \* position in fetch_logs, its return value and its exception
    fpc, fresult, ferror,
    \* the log source, the requests issued so far, whether every page so
    \* far was the exact content of its window and shorter than limit,
    \* and how often the loop body was entered
    source, requests, honest, loops

fvars == << args, container, limit, api_token,
            start_time, end_time, current_start, raw_logs, iteration,
            seen_ranges, fpc, fresult, ferror, source, requests, honest,
            loops >>

VARIABLES
    \* the argument of transaction_status and the create_orders table
    identifier, create_orders,
    \* locals of transaction_status
    create_id, source_chain, destination_chain, unix_timestamp,
    source_swap_id, destination_swap_id, create_order_success, flags,
    \* the answer of check_matched_order
    matched_order_result,
    \* result_str as the list of its parts
    result,
    \* position, exception left with, external calls made so far, and the
    \* sources whose request failed (log containers, matched-order API)
    tpc, terror, calls, failed_sources

tvars == << identifier, create_orders, create_id, source_chain,
            destination_chain, unix_timestamp, source_swap_id,
            destination_swap_id, create_order_success, flags,
            matched_order_result, result, tpc, terror, calls,
            failed_sources >>

VARIABLES
    \* analyze_bit_ponder_logs: its arguments (with the secret hash of the
    \* transaction), the lines its filter kept, and its position
    filter_args, filtered_logs, apc,
    \* the classification of step 4 applied to a second answer, which
    \* differs from matched_order_result in destination_swap.redeem_tx_hash
    flipped_result, flipped_flags, flipped_error,
    \* the external collaborators that never answer a call
    silent,
    \* main.get_transaction_status: its query parameters, its HTTP response
    \* and its position
    query, response, hpc

VARIABLES
    \* one call of fetch_db_info or fetch_matched_order_ids: the call, what
    \* it did with the store connection, what it came back with, and its
    \* position
    store_call, store_trace, store_result, spc

svars == << store_call, store_trace, store_result, spc >>

VARIABLES
    \* one call of transaction_utils.fetch_logs: its arguments with the
    \* module's API_TOKEN, the range of the request it sent, what it came
    \* back with, and its position
    local_call, local_request, local_result, lpc

lvars == << local_call, local_request, local_result, lpc >>

pvars == << filter_args, filtered_logs, apc,
            flipped_result, flipped_flags, flipped_error, silent,
            query, response, hpc, svars, lvars >>

vars == << fvars, tvars, pvars >>


(***************************************************************************)
(* utils/api_client.py  fetch_logs                                         *)
(***************************************************************************)
NoResult == [raw_logs |-> <<>>, raw_log_list |-> <<>>, end_time |-> NoneT]
NoError == [type |-> "none", container |-> ""]

max_iterations == MAX_LOOKBACK \div WINDOW_SECONDS

\* end_time = int(time.time()) if end_time is None else end_time
EffectiveEnd(e) == IF e = NoneT THEN Now ELSE e

\* if start_time > end_time: start_time, end_time = end_time, start_time
NormStart(s, e) == IF s > EffectiveEnd(e) THEN EffectiveEnd(e) ELSE s

\* the end of the swapped range, without the lookback limit
NormEnd_NoClamp(s, e) == Max(s, EffectiveEnd(e))

\* end_time = min(end_time, start_time + Config.MAX_LOOKBACK)
NormEnd(s, e) ==
    LET e0 == EffectiveEnd(e)
        lo == IF s > e0 THEN e0 ELSE s
        hi == IF s > e0 THEN s ELSE e0
    IN  Min(hi, lo + MAX_LOOKBACK)

\* ts_seconds = int(ts) // 1_000_000_000, ts = sec * 10^9 + nsec
TsSeconds(l) == l.sec + (l.nsec \div NANOS_PER_SECOND)

\* the loop condition without the iteration cap
LoopCond_NoCap == current_start < end_time

\* while current_start < end_time and iteration < max_iterations
LoopCond == current_start < end_time /\ iteration < max_iterations

\* current_end = min(current_start + WINDOW_SECONDS, end_time)
current_end == Min(current_start + WINDOW_SECONDS, end_time)

\* no window counts as too small
TooSmall_Never == FALSE

\* if current_end - current_start < MIN_WINDOW_SECONDS
TooSmall == current_end - current_start < MIN_WINDOW_SECONDS
\* no memory of the queried ranges
AlreadyQueried_Never == FALSE

\* if current_range in seen_ranges
AlreadyQueried == <<current_start, current_end>> \in seen_ranges

\* the largest ts_seconds of a page, NoneT for an empty page
PageMax(page) == SeqMax([i \in 1..Len(page) |-> TsSeconds(page[i])], NoneT)

\* the latest timestamp of the page alone, not held at current_start
LatestTimestamp_PageOnly(page) == PageMax(page)

\* latest_timestamp = max(current_start, every ts_seconds of the page)
LatestTimestamp(page) ==
    SeqMax([i \in 1..Len(page) |-> TsSeconds(page[i])], current_start)

\* the start left behind when a page without lines does not move it to
\* the window's end
AdvancedStart_NoWindowJump(page) == LatestTimestamp(page)

\* current_start = latest_timestamp if window_logs else current_end
AdvancedStart(page) ==
    IF page # <<>> THEN LatestTimestamp(page) ELSE current_end

\* window_logs: the messages of the page
WindowLogs(page) == [i \in 1..Len(page) |-> page[i].msg]

\* log_result = "\n".join(raw_logs) if raw_logs else "No logs found."
LogResult(lines) == IF lines # <<>> THEN lines ELSE <<"No logs found.">>

\* lines 13-39: token check, range normalisation, locals
FetchEnter ==
    /\ fpc = "call"
    /\ IF ~api_token
       THEN /\ fpc' = "raised"
            /\ ferror' = [type |-> "ValueError", container |-> ""]
            /\ UNCHANGED << start_time, end_time, current_start >>
       ELSE /\ fpc' = "loop"
            /\ start_time' = NormStart(args[1], args[2])
            /\ end_time' = NormEnd(args[1], args[2])
            /\ current_start' = start_time'
            /\ UNCHANGED ferror
    /\ UNCHANGED << args, container, limit, api_token, raw_logs, iteration,
                    seen_ranges, fresult, source, requests, honest, loops >>
    /\ UNCHANGED << tvars, pvars >>

\* lines 48-52: the window is shorter than MIN_WINDOW_SECONDS
FetchSkipSmall ==
    /\ fpc = "loop" /\ LoopCond /\ TooSmall
    /\ current_start' = current_end
    /\ iteration' = iteration + 1
    /\ loops' = loops + 1
    /\ UNCHANGED << args, container, limit, api_token, start_time, end_time,
                    raw_logs, seen_ranges, fpc, fresult, ferror, source,
                    requests, honest >>
    /\ UNCHANGED << tvars, pvars >>

\* lines 54-59: the range was queried before
FetchSkipSeen ==
    /\ fpc = "loop" /\ LoopCond /\ ~TooSmall /\ AlreadyQueried
    /\ current_start' = current_end
    /\ iteration' = iteration + 1
    /\ loops' = loops + 1
    /\ UNCHANGED << args, container, limit, api_token, start_time, end_time,
                    raw_logs, seen_ranges, fpc, fresult, ferror, source,
                    requests, honest >>
    /\ UNCHANGED << tvars, pvars >>

\* lines 60-89: the request succeeds with a page
FetchWindow ==
    /\ fpc = "loop" /\ LoopCond /\ ~TooSmall /\ ~AlreadyQueried
    /\ \E page \in Pages(source, limit) :
        /\ Len(raw_logs) + Len(page) <= MaxLogs
        /\ seen_ranges' = seen_ranges \cup {<<current_start, current_end>>}
        /\ raw_logs' = raw_logs \o WindowLogs(page)
        /\ current_start' = AdvancedStart(page)
        /\ iteration' = iteration + 1
        /\ loops' = loops + 1
        /\ requests' = Append(requests,
                              [start |-> current_start, end |-> current_end,
                               got |-> Len(page),
                               page_max |-> PageMax(page), ok |-> TRUE])
        /\ honest' = (/\ honest
                      /\ SeqToSet(page) = InWindow(source, current_start, current_end)
                      /\ Len(page) < limit)
    /\ UNCHANGED << args, container, limit, api_token, start_time, end_time,
                    fpc, fresult, ferror, source >>
    /\ UNCHANGED << tvars, pvars >>

\* a failed request that is logged and skipped instead of raised
OnRequestFailure_Swallow == [pc |-> "loop", error |-> NoError]

\* except RequestException: raise RuntimeError(f"Request failed for
\* container '{container}': {e}")
OnRequestFailure ==
    [pc |-> "raised",
     error |-> [type |-> "RuntimeError", container |-> container]]

\* lines 60-70, 91-93: the request times out or answers non-2xx
FetchWindowFails ==
    /\ fpc = "loop" /\ LoopCond /\ ~TooSmall /\ ~AlreadyQueried
    /\ seen_ranges' = seen_ranges \cup {<<current_start, current_end>>}
    /\ requests' = Append(requests,
                          [start |-> current_start, end |-> current_end,
                           got |-> 0, page_max |-> NoneT, ok |-> FALSE])
    /\ loops' = loops + 1
    /\ fpc' = OnRequestFailure.pc
    /\ ferror' = OnRequestFailure.error
    /\ UNCHANGED << args, container, limit, api_token, start_time, end_time,
                    current_start, raw_logs, iteration, fresult, source, honest >>
    /\ UNCHANGED << tvars, pvars >>

\* lines 95-102: the loop is left, the result is returned
FetchReturn ==
    /\ fpc = "loop" /\ ~LoopCond
    /\ fpc' = "returned"
    /\ fresult' = [raw_logs |-> LogResult(raw_logs), raw_log_list |-> raw_logs,
                   end_time |-> end_time]
    /\ UNCHANGED << args, container, limit, api_token, start_time, end_time,
                    current_start, raw_logs, iteration, seen_ranges, ferror,
                    source, requests, honest, loops >>
    /\ UNCHANGED << tvars, pvars >>

(***************************************************************************)
(* Strings that are searched: identifiers and log lines of                 *)
(* transaction_utils are sequences of characters, `x in line` is           *)
(* Contains(line, x)                                                       *)
(***************************************************************************)
Contains(line, x) ==
    \E i \in 0..(Len(line) - Len(x)) : SubSeq(line, i + 1, i + Len(x)) = x

\* None or "" where an identifier is expected
NoId == <<>>

\* the module constant CREATE_ID (a 64-digit hash, shortened)
CREATE_ID == <<"2", "d">>
\* another order id
OTHER_ID == <<"9", "f">>
Identifiers == {CREATE_ID, OTHER_ID}

SRC_SWAP == <<"s", "1">>
DST_SWAP == <<"d", "1">>

Chains == {"arbitrum_sepolia", "bitcoin_testnet"}

\* created_at of an order row parsed to unix seconds; BadTime: a value
\* isoparse rejects; NoneT: NULL
CreatedAt == 1000000
BadTime == -2

LOG_TIME_WINDOW == 300
BIT_PONDER_TIME_WINDOW == 7200
EVM_RELAY_CONTAINER == "/staging-evm-relay"
BIT_PONDER_CONTAINER == "/stage-bit-ponder"
\* Config.COBI_V2_CONTAINER, the log stream of the order-matching service
COBI_V2_CONTAINER == "/staging-cobi-v2"

\* raw log lines a container may answer with
NoiseLine == <<"n", "o">>
LineWith(id) == <<"i", "d", "=">> \o id
LogChoices ==
    { <<>>, <<NoiseLine>>, <<LineWith(CREATE_ID)>>,
      <<NoiseLine, LineWith(SRC_SWAP), LineWith(CREATE_ID)>> }

(***************************************************************************)
(* JSON values of the matched-order API                                    *)
(***************************************************************************)
Absent == [t |-> "absent", s |-> "", n |-> 0]
Null == [t |-> "null", s |-> "", n |-> 0]
JStr(x) == [t |-> "str", s |-> x, n |-> 0]
JInt(x) == [t |-> "int", s |-> "", n |-> x]

\* d.get(key, default)
Get(v, default) == IF v.t = "absent" THEN default ELSE v

\* Python truth value of a scalar
Truthy(v) ==
    CASE v.t = "str" -> v.s # ""
      [] v.t = "int" -> v.n # 0
      [] OTHER -> FALSE

\* a swap sub-object: absent, a non-dict truthy value ("bad"), or an
\* object with its fields; extra tells whether the object carries keys
\* other than the five read by the classification; an object with no key
\* at all is {}
Swap(kind, ini, cur, req, red, ref) ==
    [kind |-> kind, initiate_tx_hash |-> ini, current_confirmations |-> cur,
     required_confirmations |-> req, redeem_tx_hash |-> red,
     refund_tx_hash |-> ref, extra |-> FALSE]

WithExtra(sw) == [sw EXCEPT !.extra = TRUE]

SwapFields ==
    {"initiate_tx_hash", "current_confirmations", "required_confirmations",
     "redeem_tx_hash", "refund_tx_hash"}

\* the object is {}
IsEmptyObject(sw) ==
    sw.kind = "object" /\ ~sw.extra /\ \A f \in SwapFields : sw[f] = Absent

SwapEmpty == Swap("object", Absent, Absent, Absent, Absent, Absent)

SwapAbsent == Swap("absent", Absent, Absent, Absent, Absent, Absent)
SwapBad == Swap("bad", Absent, Absent, Absent, Absent, Absent)

\* truth value of result_data.get("source_swap"): {} is false
SwapTruthy(sw) ==
    sw.kind = "bad" \/ (sw.kind = "object" /\ ~IsEmptyObject(sw))

\* the response of check_matched_order:
\*   kind "error_wrapper": {"error": ...} after a RequestException
\*   kind "not_object": JSON that is no object (a list)
\*   kind "object": status, and result ("absent", "empty", "bad", "object")
Payload(kind, status, rkind, ss, ds) ==
    [kind |-> kind, status |-> status, result |-> rkind,
     source_swap |-> ss, destination_swap |-> ds]

ErrorWrapper == Payload("error_wrapper", "", "absent", SwapAbsent, SwapAbsent)

\* matched_order_result before check_matched_order was called
NoPayload == Payload("none", "", "absent", SwapAbsent, SwapAbsent)

(***************************************************************************)
(* utils/transaction_utils.py                                              *)
(***************************************************************************)
Entry(tag, id, cont, lines, note) ==
    [tag |-> tag, id |-> id, container |-> cont, lines |-> lines, note |-> note]

\* an external call; answer is what a summarizer call came back with
Call(op, key, cont, from, to) ==
    [op |-> op, key |-> key, container |-> cont, start |-> from, end |-> to,
     answer |-> ""]

Answered(call, g) == [call EXCEPT !.answer = g]

NoFlags ==
    [is_matched |-> FALSE, user_initiated |-> FALSE, cobi_initiated |-> FALSE,
     user_redeemed |-> FALSE, cobi_redeemed |-> FALSE,
     user_refunded |-> FALSE, cobi_refunded |-> FALSE]

\* the key of the create_orders query: cursor.execute(sql_query, (CREATE_ID,))
OrderQueryKey(initiator_source_address) == CREATE_ID

\* cursor.fetchone() of SELECT ... WHERE create_id = key
OrderRows(key) == {r \in create_orders : r.create_id = key}

\* dt = parser.isoparse(str(timestamp_str)); int(dt.timestamp())
ParsedTimestamp(created_at) ==
    IF created_at \in {NoneT, BadTime} THEN NoneT ELSE created_at

\* fetch_logs: swap an inverted range, then keep at most MAX_LOOKBACK
RangeOf(from, to) ==
    LET lo == Min(from, to)
        hi == Max(from, to)
    IN  << IF hi - lo > MAX_LOOKBACK THEN hi - MAX_LOOKBACK ELSE lo, hi >>

\* is_order_created without the manual check after a summarizer failure
IsOrderCreated_NoFallback(g, id, raw_logs_) == g = "Yes"

\* fetch_logs: is_order_created from the summarizer's answer g, which is
\* "Yes", "No", "" (no text) or "raise"
IsOrderCreated(g, id, raw_logs_) ==
    IF g = "raise"
    THEN \E i \in 1..Len(raw_logs_) : Contains(raw_logs_[i], id)
    ELSE g = "Yes"

\* the relevant lines, latest first
FilteredLogs_Reversed(logs, id, ssid, dsid) ==
    LET Keep(log) == \/ (id # NoId /\ Contains(log, id))
                     \/ (ssid # NoId /\ Contains(log, ssid))
                     \/ (dsid # NoId /\ Contains(log, dsid))
        kept == SelectSeq(logs, Keep)
    IN  [i \in 1..Len(kept) |-> kept[Len(kept) + 1 - i]]

\* analyze_bit_ponder_logs: the relevance filter
RECURSIVE FilteredLogs(_, _, _, _)
FilteredLogs(logs, id, ssid, dsid) ==
    IF logs = <<>> THEN <<>>
    ELSE LET log == Head(logs)
             keep == \/ (id # NoId /\ Contains(log, id))
                     \/ (ssid # NoId /\ Contains(log, ssid))
                     \/ (dsid # NoId /\ Contains(log, dsid))
         IN  (IF keep THEN <<log>> ELSE <<>>)
                 \o FilteredLogs(Tail(logs), id, ssid, dsid)

\* analyze_bit_ponder_logs: the rules of the prompt that attribute a log
\* marker to a party, by the role of the chain whose logs are read
Rule(role, chain, cont, marker, event, party) ==
    [role |-> role, chain |-> chain, container |-> cont, marker |-> marker,
     event |-> event, party |-> party]

InterpretationRules ==
    { Rule("source", "bitcoin_testnet", "/stage-bit-ponder",
           "HTLC initiated", "initiated", "user"),
      Rule("source", "bitcoin_testnet", "/stage-bit-ponder",
           "Redeemed", "redeemed", "cobi"),
      Rule("destination", "bitcoin_testnet", "/stage-bit-ponder",
           "HTLC initiated", "initiated", "cobi"),
      Rule("destination", "bitcoin_testnet", "/stage-bit-ponder",
           "Redeemed", "redeemed", "user"),
      Rule("source", "arbitrum_sepolia", "/staging-evm-relay",
           "order initiated", "initiated", "user"),
      Rule("destination", "arbitrum_sepolia", "/staging-evm-relay",
           "order redeemed", "redeemed", "user") }

\* analyze_bit_ponder_logs: the analysis text, for the summarizer's answer
\* g ("text", "" or "raise")
AnalysisNote(g) ==
    CASE g = "raise" -> "Gemini API error during log analysis"
      [] g = "" -> "No analysis available."
      [] OTHER -> "Gemini Analysis"

TransactionInit ==
    /\ identifier \in Identifiers
    /\ \E ids \in SUBSET Identifiers, sc \in Chains, dc \in Chains,
          at \in {CreatedAt, BadTime, NoneT} :
          create_orders = {[create_id |-> i, source_chain |-> sc,
                            destination_chain |-> dc, created_at |-> at] :
                           i \in ids}
    /\ create_id = NoId
    /\ source_chain = ""
    /\ destination_chain = ""
    /\ unix_timestamp = NoneT
    /\ source_swap_id = NoId
    /\ destination_swap_id = NoId
    /\ create_order_success = FALSE
    /\ flags = NoFlags
    /\ matched_order_result = NoPayload
    /\ result = << Entry("header", identifier, "", <<>>, "") >>
    /\ tpc = "step1"
    /\ terror = ""
    /\ calls = <<>>
    /\ failed_sources = {}

\* lines 237-258, fetch_db_info: the order row is looked up
Step1_FetchDbInfo ==
    /\ tpc = "step1"
    /\ LET key == OrderQueryKey(identifier)
           rows == OrderRows(key)
       IN
       /\ calls' = Append(calls, Call("db_info", key, "", NoneT, NoneT))
       /\ \E db_fails \in BOOLEAN :
           IF db_fails
           THEN /\ result' = Append(result, Entry("db_error", identifier, "", <<>>, ""))
                /\ tpc' = "returned"
                /\ UNCHANGED << create_id, source_chain, destination_chain,
                                unix_timestamp >>
           ELSE IF rows = {}
           THEN /\ result' = Append(result, Entry("no_data", identifier, "", <<>>, ""))
                /\ tpc' = "returned"
                /\ UNCHANGED << create_id, source_chain, destination_chain,
                                unix_timestamp >>
           ELSE \E row \in rows :
                /\ create_id' = row.create_id
                /\ source_chain' = row.source_chain
                /\ destination_chain' = row.destination_chain
                /\ unix_timestamp' = ParsedTimestamp(row.created_at)
                /\ result' = result
                     \o << Entry("db_results", row.create_id, "", <<>>, "") >>
                     \o (IF row.created_at = BadTime
                         THEN << Entry("timestamp_error", row.create_id, "", <<>>, "") >>
                         ELSE <<>>)
                /\ tpc' = "step2"
    /\ UNCHANGED << identifier, create_orders, source_swap_id,
                    destination_swap_id, create_order_success, flags,
                    matched_order_result, terror, failed_sources >>
    /\ UNCHANGED << fvars, pvars >>

\* result_str replaced by the error text
WithError_Only(parts, error) == << error >>

\* `result_str += f"... error: {str(e)}\n"`: the error text is appended to
\* what result_str holds
WithError(parts, error) == Append(parts, error)

\* transaction_status returning from the except clause of step 2
AfterMatchedIdsError_Halts == "returned"

\* where transaction_status goes after a failed matched-ids lookup: the
\* except clause of step 2 only appends to result_str
AfterMatchedIdsError == "step3"

\* lines 260-275, fetch_matched_order_ids: the swap ids are looked up
Step2_FetchMatchedOrderIds ==
    /\ tpc = "step2"
    /\ IF create_id = NoId
       THEN /\ tpc' = "step3"
            /\ UNCHANGED << calls, result, source_swap_id, destination_swap_id >>
       ELSE
       /\ calls' = Append(calls, Call("matched_ids", create_id, "", NoneT, NoneT))
       /\ \E outcome \in {"error", "none", "both", "source_only"} :
           CASE outcome = "error" ->
                  /\ result' = WithError(result,
                         Entry("matched_ids_error", create_id, "", <<>>, ""))
                  /\ tpc' = AfterMatchedIdsError
                  /\ UNCHANGED << source_swap_id, destination_swap_id >>
             [] outcome = "none" ->
                  /\ result' = Append(result,
                         Entry("no_matched_ids", create_id, "", <<>>, ""))
                  /\ tpc' = "step3"
                  /\ UNCHANGED << source_swap_id, destination_swap_id >>
             [] OTHER ->
                  /\ source_swap_id' = SRC_SWAP
                  /\ destination_swap_id' =
                         IF outcome = "both" THEN DST_SWAP ELSE NoId
                  /\ result' = Append(result,
                         Entry("matched_ids", create_id, "", <<>>, ""))
                  /\ tpc' = "step3"
    /\ UNCHANGED << identifier, create_orders, create_id, source_chain,
                    destination_chain, unix_timestamp, create_order_success,
                    flags, matched_order_result, terror, failed_sources >>
    /\ UNCHANGED << fvars, pvars >>

\* where transaction_status goes after a failed fetch of the EVM relay
\* logs: `return result_str` in the except clause of step 3
AfterEvmFetchError == "returned"

\* the parts one fetch_logs + analyze_bit_ponder_logs round adds to
\* result_str, and the summarizer calls it makes: raw lines, the answer g to
\* the order-creation prompt and the answer g2 to the analysis prompt
HasSwapIds == source_swap_id # NoId \/ destination_swap_id # NoId

\* the analysis letting the summarizer's exception reach the caller, whose
\* except clause reports a fetch error
AnalysisEntry_Propagates(cont, raw, g2) ==
    IF g2 = "raise" THEN Entry("logs_error", create_id, cont, <<>>, "")
    ELSE Entry("analysis", create_id, cont,
               FilteredLogs(raw, create_id, source_swap_id, destination_swap_id),
               AnalysisNote(g2))

AnalysisEntry(cont, raw, g2) ==
    Entry("analysis", create_id, cont,
          FilteredLogs(raw, create_id, source_swap_id, destination_swap_id),
          AnalysisNote(g2))

SummarizeCalls(cont, g, g2) ==
    << Answered(Call("summarize_created", create_id, cont, NoneT, NoneT), g) >>
        \o (IF HasSwapIds
            THEN << Answered(Call("summarize_analysis", create_id, cont,
                                  NoneT, NoneT), g2) >>
            ELSE <<>>)

\* log_result, with the note the fallback appends
LogsNote(g) == IF g = "raise" THEN "Falling back to manual check." ELSE ""

\* lines 277-300: the EVM relay logs are fetched and analysed
Step3_EvmRelayLogs ==
    /\ tpc = "step3"
    /\ IF create_id = NoId \/ unix_timestamp \in {NoneT, 0}
       THEN /\ tpc' = "step4"
            /\ UNCHANGED << calls, result, create_order_success, failed_sources >>
       ELSE
       LET range == RangeOf(unix_timestamp - LOG_TIME_WINDOW,
                            unix_timestamp + LOG_TIME_WINDOW)
           request == Call("logs", create_id, EVM_RELAY_CONTAINER,
                           range[1], range[2])
       IN
       \E fetch_fails \in BOOLEAN, raw \in LogChoices,
          g \in {"Yes", "No", "", "raise"}, g2 \in {"text", "", "raise"} :
           IF fetch_fails
           THEN /\ calls' = Append(calls, request)
                /\ result' = WithError(result,
                       Entry("logs_error", create_id, EVM_RELAY_CONTAINER, <<>>, ""))
                /\ failed_sources' = failed_sources \cup {EVM_RELAY_CONTAINER}
                /\ tpc' = AfterEvmFetchError
                /\ UNCHANGED create_order_success
           ELSE /\ calls' = calls \o <<request>> \o SummarizeCalls(EVM_RELAY_CONTAINER, g, g2)
                /\ create_order_success' = IsOrderCreated(g, create_id, raw)
                /\ result' = result
                     \o << Entry(IF create_order_success' THEN "order_created"
                                 ELSE "order_not_confirmed",
                                 create_id, EVM_RELAY_CONTAINER, <<>>, ""),
                           Entry("logs", create_id, EVM_RELAY_CONTAINER, raw,
                                 LogsNote(g)) >>
                     \o (IF HasSwapIds
                         THEN << AnalysisEntry(EVM_RELAY_CONTAINER, raw, g2) >>
                         ELSE <<>>)
                /\ tpc' = "step4"
                /\ UNCHANGED failed_sources
    /\ UNCHANGED << identifier, create_orders, create_id, source_chain,
                    destination_chain, unix_timestamp, source_swap_id,
                    destination_swap_id, flags, matched_order_result,
                    terror >>
    /\ UNCHANGED << fvars, pvars >>

(***************************************************************************)
(* Step 4: the matched-order check                                         *)
(***************************************************************************)
\* the check with required_confirmations defaulting to 0
InitiatedCheck_DefaultZero(sw) ==
    IF ~SwapTruthy(sw) THEN "no"
    ELSE IF sw.kind # "object" THEN "AttributeError"
    ELSE LET h == Get(sw.initiate_tx_hash, JStr(""))
             cur == Get(sw.current_confirmations, JInt(0))
             req == Get(sw.required_confirmations, JInt(0))
         IN  IF ~Truthy(h) THEN "no"
             ELSE IF cur.t # "int" \/ req.t # "int" THEN "TypeError"
             ELSE IF cur.n >= req.n THEN "yes" ELSE "no"

\* `if initiate_tx_hash and current_confirmations >= required_confirmations`
\* for one side: "yes", "no", or the exception it raises
InitiatedCheck(sw) ==
    IF ~SwapTruthy(sw) THEN "no"
    ELSE IF sw.kind # "object" THEN "AttributeError"
    ELSE LET h == Get(sw.initiate_tx_hash, JStr(""))
             cur == Get(sw.current_confirmations, JInt(0))
             req == Get(sw.required_confirmations, JInt(1))
         IN  IF ~Truthy(h) THEN "no"
             ELSE IF cur.t # "int" \/ req.t # "int" THEN "TypeError"
             ELSE IF cur.n >= req.n THEN "yes" ELSE "no"

\* the hash counted only for a side that has an initiation hash
HashPresent_WhenInitiated(sw, field) ==
    /\ sw.kind = "object" /\ Truthy(Get(sw[field], JStr("")))
    /\ Truthy(Get(sw.initiate_tx_hash, JStr("")))

\* `if result_data.get(side): ... if side.get(field, ""):`
HashPresent(sw, field) ==
    sw.kind = "object" /\ Truthy(Get(sw[field], JStr("")))

\* the test without the status
PayloadOk_AnyStatus(p) == p.kind = "object" /\ p.result \in {"bad", "object"}

\* `matched_order_result.get("status") == "Ok" and
\*  matched_order_result.get("result")`
PayloadOk(p) == p.kind = "object" /\ p.status = "Ok" /\ p.result \in {"bad", "object"}

\* the exception the classification of payload p raises before the
\* bit-ponder fetch ("" if none)
RaisedEarly(p) ==
    IF p.kind = "not_object" THEN "AttributeError"
    ELSE IF ~PayloadOk(p) THEN ""
    ELSE IF p.result = "bad" THEN "AttributeError"
    ELSE IF InitiatedCheck(p.source_swap) \in {"AttributeError", "TypeError"}
         THEN InitiatedCheck(p.source_swap)
    ELSE ""

\* the exception raised after the bit-ponder fetch ("" if none)
RaisedLate(p) ==
    IF RaisedEarly(p) # "" \/ ~PayloadOk(p) THEN ""
    ELSE IF InitiatedCheck(p.destination_swap) \in {"AttributeError", "TypeError"}
         THEN InitiatedCheck(p.destination_swap)
    ELSE ""

\* the flags with is_matched taken from source_swap alone
Classify_MatchedBySource(p) ==
    IF ~PayloadOk(p) THEN NoFlags
    ELSE [is_matched |-> SwapTruthy(p.source_swap),
          user_initiated |-> InitiatedCheck(p.source_swap) = "yes",
          cobi_initiated |-> InitiatedCheck(p.destination_swap) = "yes",
          user_redeemed |-> HashPresent(p.source_swap, "redeem_tx_hash"),
          cobi_redeemed |-> HashPresent(p.destination_swap, "redeem_tx_hash"),
          user_refunded |-> HashPresent(p.source_swap, "refund_tx_hash"),
          cobi_refunded |-> HashPresent(p.destination_swap, "refund_tx_hash")]

\* the seven flags of payload p, when its classification raises nothing
Classify(p) ==
    IF ~PayloadOk(p) THEN NoFlags
    ELSE [is_matched |-> SwapTruthy(p.source_swap) \/ SwapTruthy(p.destination_swap),
          user_initiated |-> InitiatedCheck(p.source_swap) = "yes",
          cobi_initiated |-> InitiatedCheck(p.destination_swap) = "yes",
          user_redeemed |-> HashPresent(p.source_swap, "redeem_tx_hash"),
          cobi_redeemed |-> HashPresent(p.destination_swap, "redeem_tx_hash"),
          user_refunded |-> HashPresent(p.source_swap, "refund_tx_hash"),
          cobi_refunded |-> HashPresent(p.destination_swap, "refund_tx_hash")]

\* the swap sub-objects and responses the matched-order API answers with
SwInitiated == Swap("object", JStr("0xi"), JInt(1), Absent, Absent, Absent)
SwNullConfirmations == Swap("object", JStr("0xi"), Null, JInt(1), Absent, Absent)
SwRedeemed == Swap("object", JStr("0xi"), JInt(2), JInt(2), JStr("0xr"), Absent)
SwapChoices == {SwapAbsent, SwapBad, SwInitiated, SwNullConfirmations, SwRedeemed}

\* the name under which a failed matched-order request is recorded
MATCHED_ORDER_API == "matched_order_api"

\* check_matched_order answering a RequestException with None
CheckMatchedOrder_NoneOnFailure(request_fails, body) ==
    IF request_fails
    THEN Payload("not_object", "", "absent", SwapAbsent, SwapAbsent)
    ELSE body

\* check_matched_order: a RequestException is answered with the error
\* wrapper, otherwise the JSON body is returned
CheckMatchedOrder(request_fails, body) ==
    IF request_fails THEN ErrorWrapper ELSE body

MatchedResponses ==
    { Payload("not_object", "", "absent", SwapAbsent, SwapAbsent),
      Payload("object", "Error", "object", SwInitiated, SwInitiated),
      Payload("object", "Ok", "empty", SwapAbsent, SwapAbsent),
      Payload("object", "Ok", "bad", SwapAbsent, SwapAbsent) }
    \cup { Payload("object", "Ok", "object", ss, ds) :
             ss \in SwapChoices, ds \in SwapChoices }

\* lines 331-349: the bit-ponder logs are fetched and analysed; the parts
\* added to result_str
BitPonderEntries(fetch_fails, raw, g, g2) ==
    IF fetch_fails
    THEN << Entry("logs_error", create_id, BIT_PONDER_CONTAINER, <<>>, "") >>
    ELSE << Entry("logs", create_id, BIT_PONDER_CONTAINER, raw, LogsNote(g)),
            IF HasSwapIds THEN AnalysisEntry(BIT_PONDER_CONTAINER, raw, g2)
            ELSE Entry("no_swap_ids", create_id, BIT_PONDER_CONTAINER, <<>>, "") >>

\* the bit-ponder logs requested once for each side of the swap that is on
\* a bitcoin chain
BitPonderCalls_PerSide(fetch_fails, g, g2) ==
    LET range == RangeOf(unix_timestamp, unix_timestamp + BIT_PONDER_TIME_WINDOW)
        request == Call("logs", create_id, BIT_PONDER_CONTAINER,
                        range[1], range[2])
    IN  << request >>
            \o (IF source_chain = destination_chain THEN << request >> ELSE <<>>)
            \o (IF fetch_fails THEN <<>>
                ELSE SummarizeCalls(BIT_PONDER_CONTAINER, g, g2))

BitPonderCalls(fetch_fails, g, g2) ==
    LET range == RangeOf(unix_timestamp, unix_timestamp + BIT_PONDER_TIME_WINDOW)
    IN  << Call("logs", create_id, BIT_PONDER_CONTAINER, range[1], range[2]) >>
            \o (IF fetch_fails THEN <<>>
                ELSE SummarizeCalls(BIT_PONDER_CONTAINER, g, g2))

\* the bit-ponder fetch made for every matched order
FetchesBitPonder_WhenMatched(p) == RaisedEarly(p) = "" /\ Classify(p).is_matched

\* whether step 4 fetches the bit-ponder logs: the fetch is inside
\* `if initiate_tx_hash and current_confirmations >= required_confirmations`
\* of the source_swap check, where user_initiated is set
FetchesBitPonder(p) == RaisedEarly(p) = "" /\ Classify(p).user_initiated

\* lines 302-408: the matched-order API is asked and its answer classified
Step4_CheckMatchedOrder ==
    /\ tpc = "step4"
    /\ IF create_id = NoId \/ ~create_order_success
       THEN /\ tpc' = "returned"
            /\ UNCHANGED << calls, result, flags, matched_order_result,
                            terror, failed_sources >>
       ELSE
       \E api_fails \in BOOLEAN, body \in MatchedResponses,
          bp_fails \in BOOLEAN,
          raw \in {<<>>, <<NoiseLine, LineWith(CREATE_ID)>>},
          g \in {"No", "raise"}, g2 \in {"text", "raise"} :
           LET p == CheckMatchedOrder(api_fails, body)
               api == << Call("matched_api", create_id, "", NoneT, NoneT) >>
               initiated == FetchesBitPonder(p)
               bp_calls == IF initiated THEN BitPonderCalls(bp_fails, g, g2) ELSE <<>>
               bp_entries == IF initiated THEN BitPonderEntries(bp_fails, raw, g, g2)
                             ELSE <<>>
               exc == IF RaisedEarly(p) # "" THEN RaisedEarly(p) ELSE RaisedLate(p)
           IN
           /\ matched_order_result' = p
           /\ calls' = calls \o api \o bp_calls
           /\ failed_sources' = failed_sources
                  \cup (IF api_fails THEN {MATCHED_ORDER_API} ELSE {})
                  \cup (IF initiated /\ bp_fails THEN {BIT_PONDER_CONTAINER}
                        ELSE {})
           /\ IF exc # ""
              THEN /\ tpc' = "raised"
                   /\ terror' = exc
                   /\ UNCHANGED << result, flags >>
              ELSE /\ tpc' = "returned"
                   /\ flags' = Classify(p)
                   /\ result' = result
                        \o << Entry("matched_api", create_id, "", <<>>, p.kind) >>
                        \o bp_entries
                        \o << Entry("summary", create_id, "", <<>>, "") >>
                   /\ UNCHANGED terror
    /\ UNCHANGED << identifier, create_orders, create_id, source_chain,
                    destination_chain, unix_timestamp, source_swap_id,
                    destination_swap_id, create_order_success >>
    /\ UNCHANGED << fvars, pvars >>

TransactionNext ==
    \/ Step1_FetchDbInfo
    \/ Step2_FetchMatchedOrderIds
    \/ Step3_EvmRelayLogs
    \/ Step4_CheckMatchedOrder

\* the fetcher of api_client is not running
FetchIdle ==
    /\ args = <<0, 0>> /\ container = "" /\ limit = 0 /\ api_token = FALSE
    /\ start_time = 0 /\ end_time = 0 /\ current_start = 0 /\ raw_logs = <<>>
    /\ iteration = 0 /\ seen_ranges = {} /\ fpc = "idle" /\ fresult = NoResult
    /\ ferror = NoError /\ source = {} /\ requests = <<>> /\ honest = TRUE
    /\ loops = 0

\* transaction_status is not running
TransactionIdle ==
    /\ identifier = <<>> /\ create_orders = {} /\ create_id = NoId
    /\ source_chain = "" /\ destination_chain = "" /\ unix_timestamp = NoneT
    /\ source_swap_id = NoId /\ destination_swap_id = NoId
    /\ create_order_success = FALSE /\ flags = NoFlags /\ result = <<>>
    /\ matched_order_result = NoPayload
    /\ tpc = "idle" /\ terror = "" /\ calls = <<>> /\ failed_sources = {}

\* analyze_bit_ponder_logs is not running
FilterArgs(logs, id, ssid, dsid, sh) ==
    [logs |-> logs, create_id |-> id, source_swap_id |-> ssid,
     destination_swap_id |-> dsid, secret_hash |-> sh]

FilterIdle ==
    /\ filter_args = FilterArgs(<<>>, NoId, NoId, NoId, NoId)
    /\ filtered_logs = <<>> /\ apc = "idle"

\* no second answer is being classified
FlippedIdle ==
    flipped_result = NoPayload /\ flipped_flags = NoFlags /\ flipped_error = ""

\* every collaborator answers
AllAnswer == silent = {}

\* the HTTP endpoint is not being called
Query(id, address) == [create_id |-> id, initiator_source_address |-> address]

Response(status, body) == [status |-> status, body |-> body]

NoResponse == Response(NoneT, "")

EndpointIdle ==
    query = Query(NoId, NoId) /\ response = NoResponse /\ hpc = "idle"

\* no store function is being called on its own
StoreCall(module, function, key, rows) ==
    [module |-> module, function |-> function, key |-> key, rows |-> rows]

StoreIdle ==
    /\ store_call = StoreCall("", "", NoId, {})
    /\ store_trace = <<>> /\ store_result = "" /\ spc = "idle"

\* transaction_utils.fetch_logs is not being called on its own
LocalCall(id, from, to, cont, token) ==
    [create_id |-> id, start_time |-> from, end_time |-> to,
     container |-> cont, api_token |-> token]

NoLocalResult ==
    [is_order_created |-> FALSE, raw_logs |-> <<>>, note |-> "",
     raw_log_list |-> <<>>]

LocalIdle ==
    /\ local_call = LocalCall(NoId, 0, 0, "", FALSE)
    /\ local_request = <<>> /\ local_result = NoLocalResult /\ lpc = "idle"

FetchInit ==
    /\ TransactionIdle
    /\ FilterIdle
    /\ FlippedIdle
    /\ AllAnswer
    /\ EndpointIdle
    /\ StoreIdle
    /\ LocalIdle
    /\ args \in CallRanges
    /\ container \in Containers
    /\ limit \in 1..MaxLimit
    /\ api_token \in BOOLEAN
    /\ source \in SUBSET LogLines
    /\ start_time = args[1]
    /\ end_time = args[2]
    /\ current_start = 0
    /\ raw_logs = <<>>
    /\ iteration = 0
    /\ seen_ranges = {}
    /\ fpc = "call"
    /\ fresult = NoResult
    /\ ferror = NoError
    /\ requests = <<>>
    /\ honest = TRUE
    /\ loops = 0

Init ==
    /\ TransactionInit
    /\ FetchIdle /\ FilterIdle /\ FlippedIdle /\ AllAnswer /\ EndpointIdle
    /\ StoreIdle
    /\ LocalIdle

Next == TransactionNext

Spec == Init /\ [][Next]_vars

FetchNext ==
    \/ FetchEnter
    \/ FetchSkipSmall
    \/ FetchSkipSeen
    \/ FetchWindow
    \/ FetchWindowFails
    \/ FetchReturn

SpecFetch == FetchInit /\ [][FetchNext]_vars

(***************************************************************************)
(* analyze_bit_ponder_logs on its own                                      *)
(***************************************************************************)
MaxFilterLogs == 2

\* the secret hash of the order (create_orders.secret_hash)
SECRET_HASH == <<"h", "7">>

FilterLines ==
    { NoiseLine, LineWith(CREATE_ID), LineWith(SRC_SWAP), LineWith(DST_SWAP),
      LineWith(SECRET_HASH) }

FilterInit ==
    /\ FetchIdle
    /\ TransactionIdle
    /\ FlippedIdle
    /\ AllAnswer
    /\ EndpointIdle
    /\ StoreIdle
    /\ LocalIdle
    /\ \E logs \in UNION {[1..k -> FilterLines] : k \in 0..MaxFilterLogs},
          id \in {NoId, CREATE_ID}, ssid \in {NoId, SRC_SWAP},
          dsid \in {NoId, DST_SWAP}, sh \in {NoId, SECRET_HASH} :
          filter_args = FilterArgs(logs, id, ssid, dsid, sh)
    /\ filtered_logs = <<>>
    /\ apc = "call"

\* lines 166-217: the lines are filtered; the summarizer's answer does not
\* change which lines are kept
AnalyzeBitPonderLogs ==
    /\ apc = "call"
    /\ filtered_logs' = FilteredLogs(filter_args.logs, filter_args.create_id,
                                     filter_args.source_swap_id,
                                     filter_args.destination_swap_id)
    /\ \E g \in {"text", "", "raise"} :
          apc' = (IF g = "raise" THEN "returned_error" ELSE "returned")
    /\ UNCHANGED << filter_args, flipped_result, flipped_flags, flipped_error,
                    silent, query, response, hpc, svars, lvars >>
    /\ UNCHANGED << fvars, tvars >>

FilterNext == AnalyzeBitPonderLogs

SpecFilter == FilterInit /\ [][FilterNext]_vars

(***************************************************************************)
(* The classification of step 4 on its own                                 *)
(***************************************************************************)
\* the swap sub-objects the classification is applied to
ClassifierSwaps ==
    { SwapAbsent, SwapBad, WithExtra(SwapEmpty) }
    \cup { Swap("object", ini, cur, req, red, ref) :
             ini \in {Absent, JStr(""), JStr("0xi")},
             cur \in {Absent, Null, JInt(1), JInt(2)},
             req \in {Absent, JInt(2)},
             red \in {Absent, JStr(""), JStr("0xr")},
             ref \in {Absent, JStr("0xf")} }

\* the answers of check_matched_order the classification is applied to
ClassifierInputs ==
    { ErrorWrapper,
      Payload("not_object", "", "absent", SwapAbsent, SwapAbsent),
      Payload("object", "Ok", "empty", SwapAbsent, SwapAbsent),
      Payload("object", "Ok", "bad", SwapAbsent, SwapAbsent) }
    \cup { Payload("object", "Error", "object", ss, ds) :
             ss \in SwapChoices, ds \in SwapChoices }
    \cup { Payload("object", "Ok", "object", ss, ds) :
             ss \in ClassifierSwaps, ds \in ClassifierSwaps }

\* the answer p with the redeem_tx_hash of its destination_swap object
\* removed if it has one, added if it has none
FlipRedeem(p) ==
    IF p.destination_swap.kind # "object" THEN p
    ELSE [p EXCEPT !.destination_swap.redeem_tx_hash =
                       IF @ = Absent THEN JStr("0xr") ELSE Absent]

\* the exception the classification of p leaves with ("" if none)
ClassifyError(p) == IF RaisedEarly(p) # "" THEN RaisedEarly(p) ELSE RaisedLate(p)

ClassifyInit ==
    /\ FetchIdle
    /\ FilterIdle
    /\ AllAnswer
    /\ EndpointIdle
    /\ StoreIdle
    /\ LocalIdle
    /\ identifier = <<>> /\ create_orders = {} /\ create_id = NoId
    /\ source_chain = "" /\ destination_chain = "" /\ unix_timestamp = NoneT
    /\ source_swap_id = NoId /\ destination_swap_id = NoId
    /\ create_order_success = FALSE /\ flags = NoFlags /\ result = <<>>
    /\ terror = "" /\ calls = <<>> /\ failed_sources = {}
    /\ matched_order_result \in ClassifierInputs
    /\ flipped_result = FlipRedeem(matched_order_result)
    /\ flipped_flags = NoFlags
    /\ flipped_error = ""
    /\ tpc = "classify"

\* lines 307-391 applied to matched_order_result and to flipped_result
ClassifyResult ==
    /\ tpc = "classify"
    /\ terror' = ClassifyError(matched_order_result)
    /\ flags' = (IF ClassifyError(matched_order_result) = ""
                 THEN Classify(matched_order_result) ELSE flags)
    /\ tpc' = (IF ClassifyError(matched_order_result) = ""
               THEN "classified" ELSE "raised")
    /\ flipped_error' = ClassifyError(flipped_result)
    /\ flipped_flags' = (IF ClassifyError(flipped_result) = ""
                         THEN Classify(flipped_result) ELSE flipped_flags)
    /\ UNCHANGED << identifier, create_orders, create_id, source_chain,
                    destination_chain, unix_timestamp, source_swap_id,
                    destination_swap_id, create_order_success,
                    matched_order_result, result, calls, failed_sources >>
    /\ UNCHANGED << filter_args, filtered_logs, apc, flipped_result, silent,
                    query, response, hpc, svars, lvars >>
    /\ UNCHANGED fvars

ClassifyNext == ClassifyResult

SpecClassify == ClassifyInit /\ [][ClassifyNext]_vars

(***************************************************************************)
(* transaction_status with collaborators that may never answer             *)
(***************************************************************************)
Collaborators == {"store", "log_api", "matched_api", "summarizer"}

\* the collaborator an external call waits for
CollaboratorOf(op) ==
    CASE op \in {"db_info", "matched_ids"} -> "store"
      [] op = "logs" -> "log_api"
      [] op = "matched_api" -> "matched_api"
      [] OTHER -> "summarizer"

\* the calls made with a timeout: requests.get(..., timeout=API_TIMEOUT);
\* psycopg2.connect / cursor.execute and model.generate_content are called
\* without one
HasTimeout(collaborator) == collaborator \in {"log_api", "matched_api"}

\* the calls a step makes
NewCalls == {calls'[k] : k \in (Len(calls) + 1)..Len(calls')}

\* a call with a timeout to a silent collaborator ends as a failed request
TimeoutsExpire ==
    \A call \in NewCalls :
        (CollaboratorOf(call.op) \in silent /\ HasTimeout(CollaboratorOf(call.op)))
            => IF call.op = "logs" THEN call.container \in failed_sources'
               ELSE MATCHED_ORDER_API \in failed_sources'

\* a call without a timeout to a silent collaborator never comes back
SomeCallHangs ==
    \E call \in NewCalls :
        CollaboratorOf(call.op) \in silent /\ ~HasTimeout(CollaboratorOf(call.op))

\* a step is over once each of its calls has come back
CallsComeBack == TimeoutsExpire /\ ~SomeCallHangs

\* the order asked for is in the store, with its creation time
LiveInit ==
    /\ TransactionInit
    /\ identifier = CREATE_ID
    /\ \E row \in create_orders :
          /\ create_orders = {row}
          /\ row.create_id = CREATE_ID
          /\ row.created_at = CreatedAt
    /\ FetchIdle
    /\ FilterIdle
    /\ FlippedIdle
    /\ EndpointIdle
    /\ StoreIdle
    /\ LocalIdle
    /\ \E who \in Collaborators : silent \in {{}, {who}}

LiveStep1 == Step1_FetchDbInfo /\ CallsComeBack

LiveStep2 == Step2_FetchMatchedOrderIds /\ CallsComeBack

LiveStep3 == Step3_EvmRelayLogs /\ CallsComeBack

LiveStep4 == Step4_CheckMatchedOrder /\ CallsComeBack

\* the step in progress has made a call that never comes back:
\* transaction_status waits in it for ever
LiveWait ==
    /\ ENABLED (TransactionNext /\ TimeoutsExpire /\ SomeCallHangs)
    /\ tpc' = "waiting"
    /\ UNCHANGED << identifier, create_orders, create_id, source_chain,
                    destination_chain, unix_timestamp, source_swap_id,
                    destination_swap_id, create_order_success, flags,
                    matched_order_result, result, terror, calls,
                    failed_sources >>
    /\ UNCHANGED << fvars, pvars >>

LiveNext == LiveStep1 \/ LiveStep2 \/ LiveStep3 \/ LiveStep4 \/ LiveWait

\* a step whose calls come back is eventually taken
SpecLive == LiveInit /\ [][LiveNext]_vars /\ WF_vars(LiveNext)

(***************************************************************************)
(* main.py  get_transaction_status                                         *)
(***************************************************************************)
\* `def transaction_status(initiator_source_address: str)`: one parameter
TransactionStatusParameters == 1

\* `transaction_status(initiator_source_address, create_id)`: two arguments
ArgumentsPassed == 2

\* the status of a returned result and of HTTPException(status_code=500)
HTTP_OK == 200
HTTP_SERVER_ERROR == 500

EndpointInit ==
    /\ FetchIdle
    /\ FilterIdle
    /\ FlippedIdle
    /\ AllAnswer
    /\ StoreIdle
    /\ LocalIdle
    /\ identifier = <<>> /\ create_id = NoId
    /\ \E ids \in SUBSET Identifiers, sc \in Chains, dc \in Chains,
          at \in {CreatedAt, BadTime, NoneT} :
          create_orders = {[create_id |-> i, source_chain |-> sc,
                            destination_chain |-> dc, created_at |-> at] :
                           i \in ids}
    /\ source_chain = "" /\ destination_chain = "" /\ unix_timestamp = NoneT
    /\ source_swap_id = NoId /\ destination_swap_id = NoId
    /\ create_order_success = FALSE /\ flags = NoFlags /\ result = <<>>
    /\ matched_order_result = NoPayload
    /\ tpc = "idle" /\ terror = "" /\ calls = <<>> /\ failed_sources = {}
    /\ \E id \in Identifiers \cup {NoId}, address \in Identifiers \cup {NoId} :
          query = Query(id, address)
    /\ response = NoResponse
    /\ hpc = "request"

\* lines 88-95: transaction_status is called with both query parameters;
\* binding two arguments to its one parameter raises TypeError before its
\* body runs, and the handler answers any exception with status 500
GetTransactionStatus ==
    /\ hpc = "request"
    /\ IF ArgumentsPassed # TransactionStatusParameters
       THEN response' = Response(HTTP_SERVER_ERROR, "TypeError")
       ELSE response' = Response(HTTP_OK, "result_str")
    /\ hpc' = "responded"
    /\ UNCHANGED << filter_args, filtered_logs, apc, flipped_result,
                    flipped_flags, flipped_error, silent, query, svars, lvars >>
    /\ UNCHANGED << fvars, tvars >>

EndpointNext == GetTransactionStatus

SpecEndpoint == EndpointInit /\ [][EndpointNext]_vars

(***************************************************************************)
(* fetch_db_info and fetch_matched_order_ids on their own, in              *)
(* utils/database.py and in utils/transaction_utils.py                     *)
(***************************************************************************)
StoreModules == {"database", "transaction_utils"}

\* the statements of the try block that touch the store, in order
StoreSteps == << "connect", "cursor", "execute", "description", "fetchone" >>

\* where the try block is left by an exception ("none": it is not)
FailurePoints == SeqToSet(StoreSteps) \cup {"none"}

\* the statements of the try block that completed
Completed(fail_at) ==
    IF fail_at = "none" THEN StoreSteps
    ELSE LET k == CHOOSE i \in 1..Len(StoreSteps) : StoreSteps[i] = fail_at
         IN  SubSeq(StoreSteps, 1, k - 1)

\* a finally block that closes the cursor and leaves the connection open
Finally_KeepsConnection(has_cursor, has_conn) ==
    IF has_cursor THEN << "cursor.close" >> ELSE <<>>

\* finally: if cursor: cursor.close()
\*          if conn: conn.close()
Finally(has_cursor, has_conn) ==
    (IF has_cursor THEN << "cursor.close" >> ELSE <<>>)
        \o (IF has_conn THEN << "conn.close" >> ELSE <<>>)

\* what one call does with the store: the try block up to the exception,
\* then the finally block; conn and cursor are None until assigned
StoreSession(fail_at) ==
    LET done == Completed(fail_at)
    IN  done \o Finally("cursor" \in SeqToSet(done), "connect" \in SeqToSet(done))

\* the key of the query: fetch_db_info of transaction_utils selects by the
\* module constant, the other three functions by their argument
StoreKey(call) ==
    IF call.module = "transaction_utils" /\ call.function = "fetch_db_info"
    THEN OrderQueryKey(call.key)
    ELSE call.key

\* what the call comes back with: the row as a dict, {} when no row
\* matches, or the exception it leaves with.  database.py catches
\* psycopg2.Error only, transaction_utils.py catches Exception
StoreOutcome(call, fail_at, kind) ==
    IF fail_at = "none"
    THEN IF StoreKey(call) \in call.rows THEN "row" ELSE "{}"
    ELSE IF call.module = "transaction_utils" \/ kind = "psycopg2.Error"
         THEN "RuntimeError"
         ELSE kind

StoreInit ==
    /\ FetchIdle
    /\ TransactionIdle
    /\ FilterIdle
    /\ FlippedIdle
    /\ AllAnswer
    /\ EndpointIdle
    /\ LocalIdle
    /\ \E m \in StoreModules, f \in {"fetch_db_info", "fetch_matched_order_ids"},
          key \in Identifiers, rows \in SUBSET Identifiers :
          store_call = StoreCall(m, f, key, rows)
    /\ store_trace = <<>>
    /\ store_result = ""
    /\ spc = "call"

\* one call of fetch_db_info, from `conn = None` to the end of finally
FetchDbInfo ==
    /\ spc = "call" /\ store_call.function = "fetch_db_info"
    /\ \E fail_at \in FailurePoints, kind \in {"psycopg2.Error", "Exception"} :
          /\ store_trace' = StoreSession(fail_at)
          /\ store_result' = StoreOutcome(store_call, fail_at, kind)
          /\ spc' = (IF fail_at = "none" THEN "returned" ELSE "raised")
    /\ UNCHANGED << filter_args, filtered_logs, apc, flipped_result,
                    flipped_flags, flipped_error, silent, query, response,
                    hpc, store_call, lvars >>
    /\ UNCHANGED << fvars, tvars >>

\* one call of fetch_matched_order_ids
FetchMatchedOrderIds ==
    /\ spc = "call" /\ store_call.function = "fetch_matched_order_ids"
    /\ \E fail_at \in FailurePoints, kind \in {"psycopg2.Error", "Exception"} :
          /\ store_trace' = StoreSession(fail_at)
          /\ store_result' = StoreOutcome(store_call, fail_at, kind)
          /\ spc' = (IF fail_at = "none" THEN "returned" ELSE "raised")
    /\ UNCHANGED << filter_args, filtered_logs, apc, flipped_result,
                    flipped_flags, flipped_error, silent, query, response,
                    hpc, store_call, lvars >>
    /\ UNCHANGED << fvars, tvars >>

StoreNext == FetchDbInfo \/ FetchMatchedOrderIds

SpecStore == StoreInit /\ [][StoreNext]_vars

(***************************************************************************)
(* The range normalisation of both fetch_logs: api_client.fetch_logs or    *)
(* transaction_utils.fetch_logs called on its own                          *)
(***************************************************************************)
LocalInit ==
    /\ FetchIdle
    /\ TransactionIdle
    /\ FilterIdle
    /\ FlippedIdle
    /\ AllAnswer
    /\ EndpointIdle
    /\ StoreIdle
    /\ \E range \in CallRanges, cont \in Containers, token \in BOOLEAN :
          /\ range[2] # NoneT
          /\ local_call = LocalCall(CREATE_ID, range[1], range[2], cont, token)
    /\ local_request = <<>>
    /\ local_result = NoLocalResult
    /\ lpc = "call"

\* transaction_utils.py lines 115-164: token check, range normalisation,
\* one request, the order-creation question to the summarizer
LocalFetchLogs ==
    /\ lpc = "call"
    /\ IF ~local_call.api_token
       THEN /\ lpc' = "raised_ValueError"
            /\ UNCHANGED << local_request, local_result >>
       ELSE
       /\ local_request' = RangeOf(local_call.start_time, local_call.end_time)
       /\ \E fetch_fails \in BOOLEAN, raw \in LogChoices,
             g \in {"Yes", "No", "", "raise"} :
             IF fetch_fails
             THEN /\ lpc' = "raised_RuntimeError"
                  /\ UNCHANGED local_result
             ELSE /\ lpc' = "returned"
                  /\ local_result' =
                         [is_order_created |->
                              IsOrderCreated(g, local_call.create_id, raw),
                          raw_logs |-> LogResult(raw),
                          note |-> LogsNote(g),
                          raw_log_list |-> raw]
    /\ UNCHANGED << filter_args, filtered_logs, apc, flipped_result,
                    flipped_flags, flipped_error, silent, query, response,
                    hpc, svars, local_call >>
    /\ UNCHANGED << fvars, tvars >>

RangesInit == FetchInit \/ LocalInit

RangesNext == FetchNext \/ LocalFetchLogs

SpecRanges == RangesInit /\ [][RangesNext]_vars

(***************************************************************************)
(* Properties of transaction_status, checked under Spec                    *)
(***************************************************************************)
HasEntry(tag, cont) ==
    \E i \in 1..Len(result) : result[i].tag = tag /\ result[i].container = cont

Called(op) == \E i \in 1..Len(calls) : calls[i].op = op

\* C1: when the log fetch of the EVM relay container has failed,
\* transaction_status returns a result that holds the error entry of that
\* source, and the matched-order status check has still been attempted.
C1_FailureIsolated ==
    (tpc = "returned" /\ EVM_RELAY_CONTAINER \in failed_sources) =>
        /\ HasEntry("logs_error", EVM_RELAY_CONTAINER)
        /\ Called("matched_api")

\* C2: transaction_status never leaves with an exception, whatever the
\* store, the log API, the matched-order API and the summarizer answer.
C2_NeverRaises == tpc # "raised"

\* C3: the order lookup queries the store with the identifier the caller
\* supplied, and the order record used afterwards is that identifier's.
C3_LookupBySuppliedIdentifier ==
    /\ \A i \in 1..Len(calls) :
           calls[i].op = "db_info" => calls[i].key = identifier
    /\ create_id # NoId => create_id = identifier

\* C4: when the store holds no order record for the supplied identifier and
\* answers the query, the returned result is the header and the error
\* "No data found for <identifier>" only, and nothing but the order lookup
\* was called.
C4_NotFoundOnlyError ==
    (/\ tpc = "returned"
     /\ OrderRows(identifier) = {}
     /\ ~HasEntry("db_error", "")) =>
        /\ result = << Entry("header", identifier, "", <<>>, ""),
                       Entry("no_data", identifier, "", <<>>, "") >>
        /\ \A i \in 1..Len(calls) : calls[i].op = "db_info"

(***************************************************************************)
(* Properties of api_client.fetch_logs, checked under SpecFetch            *)
(***************************************************************************)
Returned == fpc = "returned"

\* C5: whenever fetch_logs returns after pages that were each the exact
\* content of their window and shorter than limit, every line of the source
\* with a timestamp in [start_time, returned end_time] is in raw_log_list.
C5_NoLineLost ==
    (Returned /\ honest) =>
        \A l \in InWindow(source, start_time, fresult.end_time) :
            l.msg \in SeqToSet(fresult.raw_log_list)

\* C6: the returned raw_log_list contains no line twice.
C6_NoDuplicateLines == Returned => NoDuplicates(fresult.raw_log_list)

\* C7: the loop body is entered at most floor(MAX_LOOKBACK / WINDOW_SECONDS)
\* = 15 times in one call, so at most 15 requests are issued, whatever the
\* pages hold.
C7_BoundedIterations ==
    /\ max_iterations = 15
    /\ loops <= max_iterations
    /\ Len(requests) <= loops

C7_Witness == Returned /\ Len(requests) = 15 /\ raw_logs # <<>>

WindowsOf(start, end) ==
    LET range == end - start
        k == (range + WINDOW_SECONDS - 1) \div WINDOW_SECONDS
        last == range - (k - 1) * WINDOW_SECONDS
    IN  IF range <= 0 THEN 0
        ELSE IF last < MIN_WINDOW_SECONDS THEN k - 1 ELSE k

AllPagesEmpty == \A i \in 1..Len(requests) : requests[i].ok /\ requests[i].got = 0

NoProgressPage(r) == r.ok /\ r.got = limit /\ r.page_max <= r.start

\* C9 as stated: a full page whose maximum timestamp does not exceed the
\* start of its request is followed by no further request.
C9_StopOnNoProgress ==
    \A i \in 1..Len(requests) : NoProgressPage(requests[i]) => i = Len(requests)

\* C9 amended: after such a page the range is not queried again; every
\* later request of the call starts at or after the end of that range.
C9_NoProgressRangeSkipped ==
    \A i, j \in 1..Len(requests) :
        (i < j /\ NoProgressPage(requests[i])) =>
            requests[j].start >= requests[i].end

C9_Witness ==
    \E i \in 1..Len(requests) : NoProgressPage(requests[i]) /\ i < Len(requests)

\* C10: once a request has failed the call has raised a RuntimeError naming
\* the container and has no result, whatever was fetched before.
C10_FailureIsFatal ==
    (\E i \in 1..Len(requests) : ~requests[i].ok) =>
        /\ fpc = "raised"
        /\ ferror = [type |-> "RuntimeError", container |-> container]
        /\ fresult = NoResult

C10_Witness ==
    /\ fpc = "raised" /\ ferror.type = "RuntimeError"
    /\ raw_logs # <<>> /\ Len(requests) >= 2

(***************************************************************************)
(* Properties of transaction_status, checked under Spec (continued)        *)
(***************************************************************************)
MatchedApiCalls == {i \in 1..Len(calls) : calls[i].op = "matched_api"}

\* C11: in every finished invocation in which the order record was found,
\* the matched-order status check ran exactly once, whether or not a log
\* fetch succeeded and whether or not the order id was found in the logs.
C11_MatchedCheckRunsOnce ==
    (tpc \in {"returned", "raised"} /\ create_id # NoId) =>
        Cardinality(MatchedApiCalls) = 1

(***************************************************************************)
(* Properties of analyze_bit_ponder_logs, checked under SpecFilter         *)
(***************************************************************************)
FilterReturned == apc \in {"returned", "returned_error"}

\* the identifiers analyze_bit_ponder_logs is called with
SuppliedIds ==
    {filter_args.create_id, filter_args.source_swap_id,
     filter_args.destination_swap_id}

KeptLines == SeqToSet(filtered_logs)

\* C12: every line the relevance filter keeps contains at least one of the
\* supplied non-empty identifiers, and when every supplied identifier is
\* empty the filter keeps all input lines.
C12_KeptLinesRelevantOrAllKept ==
    FilterReturned =>
        /\ \A i \in 1..Len(filtered_logs) :
               \E id \in SuppliedIds \ {NoId} : Contains(filtered_logs[i], id)
        /\ SuppliedIds = {NoId} => filtered_logs = filter_args.logs

\* the identifiers of the transaction: those supplied and the secret hash
TransactionIds == SuppliedIds \cup {filter_args.secret_hash}

\* C13: every input line that contains a non-empty one of the order id, the
\* source swap id, the destination swap id or the secret hash of the
\* transaction is kept by the relevance filter.
C13_RelevantLinesKept ==
    FilterReturned =>
        \A i \in 1..Len(filter_args.logs) :
            (\E id \in TransactionIds \ {NoId} :
                 Contains(filter_args.logs[i], id))
                => filter_args.logs[i] \in KeptLines

(***************************************************************************)
(* Properties of the classification, checked under SpecClassify            *)
(***************************************************************************)
Classified == tpc = "classified"

\* the answer has the success status and a non-empty object as payload
SuccessWithPayload(p) ==
    p.kind = "object" /\ p.status = "Ok" /\ p.result = "object"

\* the payload has the sub-object, whatever its fields
SubObjectPresent(sw) == sw.kind = "object"

\* C14: for an answer with success status and non-empty payload, is_matched
\* is true iff the payload has a source_swap or a destination_swap
\* sub-object, whatever fields that sub-object carries.
C14_MatchedIffSwapPresent ==
    (Classified /\ SuccessWithPayload(matched_order_result)) =>
        (flags.is_matched <=>
            \/ SubObjectPresent(matched_order_result.source_swap)
            \/ SubObjectPresent(matched_order_result.destination_swap))

\* the side's field is a non-empty string
HasHash(sw, field) ==
    sw.kind = "object" /\ sw[field].t = "str" /\ sw[field].s # ""

CurrentOf(sw) ==
    IF sw.current_confirmations = Absent THEN 0 ELSE sw.current_confirmations.n

RequiredOf(sw) ==
    IF sw.required_confirmations = Absent THEN 1 ELSE sw.required_confirmations.n

ConfirmedInitiation(sw) ==
    HasHash(sw, "initiate_tx_hash") /\ CurrentOf(sw) >= RequiredOf(sw)

\* C15: for an answer with success status and payload whose classification
\* completes, user_initiated (cobi_initiated) is true iff source_swap
\* (destination_swap) has a non-empty initiate_tx_hash and its
\* current_confirmations >= required_confirmations, an absent
\* required_confirmations counting as 1.
C15_InitiatedIffConfirmed ==
    (Classified /\ SuccessWithPayload(matched_order_result)) =>
        /\ flags.user_initiated <=>
               ConfirmedInitiation(matched_order_result.source_swap)
        /\ flags.cobi_initiated <=>
               ConfirmedInitiation(matched_order_result.destination_swap)

\* the user has initiated with required_confirmations absent and one
\* confirmation; Cobi has a hash but one confirmation of two
C15_Witness ==
    /\ Classified /\ SuccessWithPayload(matched_order_result)
    /\ flags.user_initiated /\ ~flags.cobi_initiated
    /\ matched_order_result.source_swap.required_confirmations = Absent
    /\ matched_order_result.source_swap.current_confirmations = JInt(1)
    /\ HasHash(matched_order_result.destination_swap, "initiate_tx_hash")
    /\ matched_order_result.destination_swap.current_confirmations = JInt(1)
    /\ matched_order_result.destination_swap.required_confirmations = JInt(2)

\* C16: for an answer with success status and payload whose classification
\* completes, each side's redeemed flag is true iff that side's
\* redeem_tx_hash is non-empty and its refunded flag is true iff that side's
\* refund_tx_hash is non-empty, whatever the confirmation counts and the
\* initiated flag of the side.
C16_RedeemedRefundedIffHash ==
    (Classified /\ SuccessWithPayload(matched_order_result)) =>
        LET ss == matched_order_result.source_swap
            ds == matched_order_result.destination_swap
        IN  /\ flags.user_redeemed <=> HasHash(ss, "redeem_tx_hash")
            /\ flags.cobi_redeemed <=> HasHash(ds, "redeem_tx_hash")
            /\ flags.user_refunded <=> HasHash(ss, "refund_tx_hash")
            /\ flags.cobi_refunded <=> HasHash(ds, "refund_tx_hash")

\* redeemed and refunded are reported for the user, who has not initiated
\* and has no initiation hash, while Cobi has initiated and neither
\* redeemed nor refunded
C16_Witness ==
    /\ Classified /\ SuccessWithPayload(matched_order_result)
    /\ flags.user_redeemed /\ flags.user_refunded /\ ~flags.user_initiated
    /\ matched_order_result.source_swap.initiate_tx_hash = Absent
    /\ flags.cobi_initiated /\ ~flags.cobi_redeemed /\ ~flags.cobi_refunded

OtherSixFlags ==
    {"is_matched", "user_initiated", "cobi_initiated", "user_redeemed",
     "user_refunded", "cobi_refunded"}

\* the two answers differ in whether destination_swap carries a non-empty
\* redeem_tx_hash
RedeemHashFlipped ==
    HasHash(matched_order_result.destination_swap, "redeem_tx_hash")
        # HasHash(flipped_result.destination_swap, "redeem_tx_hash")

\* C17: two answers that differ only in whether destination_swap carries a
\* redeem_tx_hash are classified alike in the six flags other than
\* cobi_redeemed, and differ in cobi_redeemed when the hash is non-empty.
C17_OnlyCobiRedeemedChanges ==
    (Classified /\ matched_order_result.destination_swap.kind = "object") =>
        /\ flipped_error = ""
        /\ \A f \in OtherSixFlags : flags[f] = flipped_flags[f]
        /\ (SuccessWithPayload(matched_order_result) /\ RedeemHashFlipped)
               => flags.cobi_redeemed # flipped_flags.cobi_redeemed

\* C18: when the status field of the answer is not "Ok", or its result
\* payload is empty or missing, the classification completes with all seven
\* flags false.
C18_NoFlagsWithoutSuccess ==
    (/\ tpc \in {"classified", "raised"}
     /\ matched_order_result.kind \in {"object", "error_wrapper"}
     /\ \/ matched_order_result.status # "Ok"
        \/ matched_order_result.result \in {"absent", "empty"}) =>
        Classified /\ flags = NoFlags

\* an answer with status "Error" whose payload shows both sides initiated
C18_Witness ==
    /\ Classified /\ flags = NoFlags
    /\ matched_order_result.status = "Error"
    /\ ConfirmedInitiation(matched_order_result.source_swap)
    /\ ConfirmedInitiation(matched_order_result.destination_swap)

(***************************************************************************)
(* Properties of transaction_status on failures, checked under Spec        *)
(***************************************************************************)
\* C19: when the request of the matched-order API has failed,
\* check_matched_order has returned the error wrapper and transaction_status
\* has not raised: it has returned with all flags false and with the final
\* summary in its result.
C19_ApiFailureIsData ==
    MATCHED_ORDER_API \in failed_sources =>
        /\ matched_order_result = ErrorWrapper
        /\ tpc = "returned"
        /\ flags = NoFlags
        /\ HasEntry("matched_api", "")
        /\ result[Len(result)].tag = "summary"
        /\ ~HasEntry("logs", BIT_PONDER_CONTAINER)

C19_Witness ==
    /\ MATCHED_ORDER_API \in failed_sources
    /\ tpc = "returned"
    /\ Cardinality(MatchedApiCalls) = 1

\* the result parts of the EVM relay logs written after the summarizer
\* raised in the order-creation check
FallbackEntries ==
    {i \in 1..Len(result) :
        /\ result[i].tag = "logs"
        /\ result[i].container = EVM_RELAY_CONTAINER
        /\ result[i].note = LogsNote("raise")}

\* C20: when the summarizer has raised in the order-creation check of the
\* EVM relay logs, is_order_created is true iff create_id is a substring of
\* at least one raw line, and no fetch error is recorded for that source.
C20_FallbackIsSubstringCheck ==
    \A i \in FallbackEntries :
        /\ create_order_success <=>
               \E k \in 1..Len(result[i].lines) :
                   Contains(result[i].lines[k], create_id)
        /\ ~HasEntry("logs_error", EVM_RELAY_CONTAINER)
        /\ EVM_RELAY_CONTAINER \notin failed_sources
        /\ HasEntry(IF create_order_success THEN "order_created"
                    ELSE "order_not_confirmed", EVM_RELAY_CONTAINER)

\* the summarizer raised and the order id is in one of several raw lines
C20_Witness ==
    \E i \in FallbackEntries :
        /\ create_order_success
        /\ Len(result[i].lines) > 1
        /\ ~Contains(result[i].lines[1], create_id)

(***************************************************************************)
(* Properties of the summarizer's failure modes, checked under Spec        *)
(***************************************************************************)
\* the raw lines transaction_status got from container cont
RawLinesOf(cont) ==
    UNION {SeqToSet(result[i].lines) :
             i \in {k \in 1..Len(result) :
                      result[k].tag = "logs" /\ result[k].container = cont}}

\* the summarizer came back with `answer` to prompt `op` about cont
Summarized(op, cont, answer) ==
    \E i \in 1..Len(calls) :
        calls[i].op = op /\ calls[i].container = cont /\ calls[i].answer = answer

\* the analysis part written for cont carries a note that no automated
\* analysis is available
AnalysisDegraded(cont) ==
    \E i \in 1..Len(result) :
        /\ result[i].tag = "analysis" /\ result[i].container = cont
        /\ result[i].note \in {AnalysisNote(""), AnalysisNote("raise")}

\* C21: when the summarizer has answered with empty text, the outcome is
\* that of the fallback: the order-creation check is decided by whether
\* create_id is a substring of a raw line, and the analysis is the filtered
\* lines with a note that no analysis is available.
C21_EmptyTextIsFallback ==
    /\ Summarized("summarize_created", EVM_RELAY_CONTAINER, "") =>
           (create_order_success <=>
               \E line \in RawLinesOf(EVM_RELAY_CONTAINER) :
                   Contains(line, create_id))
    /\ Summarized("summarize_analysis", EVM_RELAY_CONTAINER, "") =>
           AnalysisDegraded(EVM_RELAY_CONTAINER)

\* the analysis part written for cont: the lines of the fetch that pass the
\* filter, followed by the note of a failed summarizer call
AnalysisFellBack(cont) ==
    \E i \in 1..Len(result), k \in 1..Len(result) :
        /\ result[k].tag = "logs" /\ result[k].container = cont
        /\ result[i].tag = "analysis" /\ result[i].container = cont
        /\ result[i].note = AnalysisNote("raise")
        /\ SeqToSet(result[i].lines) =
               {l \in SeqToSet(result[k].lines) :
                   \E id \in {create_id, source_swap_id, destination_swap_id} :
                       id # NoId /\ Contains(l, id)}

LastEntryIs(tag) == result # <<>> /\ result[Len(result)].tag = tag

\* C22: when the summarizer has raised on the analysis prompt for a
\* container, analyze_bit_ponder_logs has returned the filtered lines with
\* the note of the failure, no fetch error is recorded for the container,
\* and transaction_status has gone on: after the EVM relay analysis to the
\* matched-order check, after the bit-ponder analysis to the final summary.
C22_AnalysisFailureDegrades ==
    \A cont \in {EVM_RELAY_CONTAINER, BIT_PONDER_CONTAINER} :
        (tpc = "returned" /\ Summarized("summarize_analysis", cont, "raise")) =>
            /\ AnalysisFellBack(cont)
            /\ ~HasEntry("logs_error", cont)
            /\ cont \notin failed_sources
            /\ create_order_success => Called("matched_api")
            /\ Called("matched_api") => LastEntryIs("summary")

\* the summarizer raised on both analyses and the result ends with the
\* summary
C22_Witness ==
    /\ tpc = "returned"
    /\ Summarized("summarize_analysis", EVM_RELAY_CONTAINER, "raise")
    /\ Summarized("summarize_analysis", BIT_PONDER_CONTAINER, "raise")
    /\ LastEntryIs("summary")
    /\ \E i \in 1..Len(result) :
           result[i].tag = "analysis" /\ result[i].lines # <<>>

(***************************************************************************)
(* Properties of the stages of transaction_status, checked under Spec      *)
(***************************************************************************)
LogCalls == {i \in 1..Len(calls) : calls[i].op = "logs"}

FetchedFrom(cont) == \E i \in LogCalls : calls[i].container = cont

\* C23: when the matched-ids lookup has failed, the failure is in the
\* result, both swap ids are absent, and transaction_status has gone on to
\* the log fetch stage: with a creation time to fetch around, the EVM relay
\* logs have been requested, and no analysis was made for want of swap ids.
C23_MatchedIdsFailureContinues ==
    (HasEntry("matched_ids_error", "") /\ tpc \notin {"step2", "step3"}) =>
        /\ source_swap_id = NoId /\ destination_swap_id = NoId
        /\ unix_timestamp \notin {NoneT, 0} => FetchedFrom(EVM_RELAY_CONTAINER)
        /\ ~Called("summarize_analysis")

\* after the failed lookup the logs were fetched and the matched-order
\* check made
C23_Witness ==
    /\ HasEntry("matched_ids_error", "")
    /\ HasEntry("logs", EVM_RELAY_CONTAINER)
    /\ tpc = "returned" /\ LastEntryIs("summary")

Finished == tpc = "returned"

OrderFound == create_id # NoId

\* C24: in every finished invocation in which the order was found, the logs
\* of the generic matching-service source have been fetched, after the
\* logs of every chain-specific source.
C24_GenericSourceFetchedLast ==
    (Finished /\ OrderFound) =>
        \E i \in LogCalls :
            /\ calls[i].container = COBI_V2_CONTAINER
            /\ \A j \in LogCalls : j <= i

\* the fixed table from chain to log source
SourceOfChain(chain) ==
    IF chain = "bitcoin_testnet" THEN BIT_PONDER_CONTAINER
    ELSE EVM_RELAY_CONTAINER

\* the sources the table assigns to the two sides, in order, without
\* repetition
SelectedSources ==
    IF SourceOfChain(source_chain) = SourceOfChain(destination_chain)
    THEN << SourceOfChain(source_chain) >>
    ELSE << SourceOfChain(source_chain), SourceOfChain(destination_chain) >>

IsChainSpecificFetch(call) ==
    call.op = "logs" /\ call.container # COBI_V2_CONTAINER

\* the containers of the chain-specific fetches, in the order of the calls
FetchedSources ==
    LET fetches == SelectSeq(calls, IsChainSpecificFetch)
    IN  [i \in 1..Len(fetches) |-> fetches[i].container]

\* C25: in every finished invocation in which the order was found with its
\* creation time, the chain-specific sources fetched are those the table
\* assigns to source_chain and destination_chain, in that order.
C25_SourcesFollowChainTable ==
    (Finished /\ OrderFound /\ unix_timestamp \notin {NoneT, 0}) =>
        FetchedSources = SelectedSources

\* C26: no container is the target of more than one fetch_logs call of one
\* invocation.
C26_OneFetchPerSource ==
    \A i, j \in LogCalls :
        calls[i].container = calls[j].container => i = j

\* both sources were fetched for a swap with the same chain on both sides
C26_Witness ==
    /\ Finished
    /\ source_chain = destination_chain
    /\ FetchedFrom(EVM_RELAY_CONTAINER) /\ FetchedFrom(BIT_PONDER_CONTAINER)

\* C27: the external calls of one invocation are made in the order of the
\* stages: the order lookup first, then the matched-ids lookup, then the
\* log fetches with their summaries, then the matched-order check; no log
\* fetch follows the matched-order API call.
StageOf(op) ==
    CASE op = "db_info" -> 1
      [] op = "matched_ids" -> 2
      [] op \in {"logs", "summarize_created", "summarize_analysis"} -> 3
      [] OTHER -> 4

C27_StagesInOrder ==
    \A i, j \in 1..Len(calls) :
        i < j => StageOf(calls[i].op) <= StageOf(calls[j].op)

(***************************************************************************)
(* Termination of transaction_status, checked under SpecLive               *)
(***************************************************************************)
\* C28: every invocation of transaction_status eventually ends, also when
\* a collaborator never answers.
C28_EventuallyEnds == <>(tpc \in {"returned", "raised"})

(***************************************************************************)
(* Properties of get_transaction_status, checked under SpecEndpoint        *)
(***************************************************************************)
\* the request names, by order id or by originating address, an order that
\* is in the store
OrderExistsFor(q) ==
    \/ q.create_id # NoId /\ OrderRows(q.create_id) # {}
    \/ q.initiator_source_address # NoId
          /\ OrderRows(q.initiator_source_address) # {}

\* C29: a request that names an existing order, by its order id or by its
\* originating address, is answered with the transaction status result and
\* not with an error response.
C29_BothModesAnswered ==
    (hpc = "responded" /\ OrderExistsFor(query)) =>
        response.status = HTTP_OK

(***************************************************************************)
(* Properties of the result of transaction_status, checked under Spec      *)
(***************************************************************************)
ErrorTags == {"timestamp_error", "matched_ids_error", "logs_error"}

ErrorRecorded == \E i \in 1..Len(result) : result[i].tag \in ErrorTags

\* C30: the result of a returned invocation in which the order record was
\* found starts with the header and the fields of the record, and holds the
\* matched ids once they were resolved, whatever errors later stages have
\* recorded.
C30_PartialResultKept ==
    (Finished /\ OrderFound) =>
        /\ Len(result) >= 2
        /\ result[1].tag = "header"
        /\ result[2].tag = "db_results" /\ result[2].id = create_id
        /\ (source_swap_id # NoId \/ destination_swap_id # NoId)
               => HasEntry("matched_ids", "")

\* the record and the matched ids are in a result that also holds the error
\* of the failed EVM relay fetch
C30_Witness ==
    /\ Finished /\ OrderFound
    /\ HasEntry("db_results", "") /\ HasEntry("matched_ids", "")
    /\ HasEntry("logs_error", EVM_RELAY_CONTAINER)

(***************************************************************************)
(* Properties of the store functions, checked under SpecStore              *)
(***************************************************************************)
StoreCallOver == spc \in {"returned", "raised"}

\* the positions of an event in the trace of the call
PositionsOf(event) == {i \in 1..Len(store_trace) : store_trace[i] = event}

\* C31: when fetch_db_info or fetch_matched_order_ids has returned or
\* raised, the connection it opened is closed, and so is its cursor, the
\* cursor before the connection; a call opens at most one connection and
\* closes nothing it did not open.
C31_ConnectionReleased ==
    StoreCallOver =>
        /\ Cardinality(PositionsOf("connect")) <= 1
        /\ Cardinality(PositionsOf("conn.close")) = Cardinality(PositionsOf("connect"))
        /\ Cardinality(PositionsOf("cursor.close")) = Cardinality(PositionsOf("cursor"))
        /\ \A i \in PositionsOf("connect"), j \in PositionsOf("conn.close") : i < j
        /\ \A i \in PositionsOf("cursor"), j \in PositionsOf("cursor.close") : i < j
        /\ \A i \in PositionsOf("cursor.close"), j \in PositionsOf("conn.close") : i < j
        /\ store_trace # <<>> => store_trace[Len(store_trace)] = "conn.close"

\* the query failed after the connection and the cursor were opened
C31_Witness ==
    /\ spc = "raised" /\ store_result = "RuntimeError"
    /\ store_trace = << "connect", "cursor", "cursor.close", "conn.close" >>

(***************************************************************************)
(* Properties of api_client.fetch_logs, checked under SpecFetch            *)
(* (continued)                                                             *)
(***************************************************************************)
RangeOfRequest(r) == << r.start, r.end >>

DistinctRanges(reqs) ==
    \A i, j \in 1..Len(reqs) :
        i # j => RangeOfRequest(reqs[i]) # RangeOfRequest(reqs[j])

\* the loop is about to handle a range of at least MIN_WINDOW_SECONDS that
\* was queried before
AtQueriedRange ==
    /\ fpc = "loop" /\ LoopCond /\ ~TooSmall
    /\ \E i \in 1..Len(requests) :
          RangeOfRequest(requests[i]) = << current_start, current_end >>

\* C32: one call never issues two requests with the same (start, end)
\* range; at a range already queried the loop issues no request and moves
\* current_start to the end of that range.
C32_NoRangeQueriedTwice ==
    [][/\ DistinctRanges(requests')
       /\ AtQueriedRange =>
              (requests' = requests /\ current_start' = current_end)]_vars

\* a page that did not move current_start was followed by a skip of its
\* range, and the next request starts where that range ends
C32_Witness ==
    \E i \in 1..(Len(requests) - 1) :
        /\ requests[i].got > 0
        /\ requests[i].page_max <= requests[i].start
        /\ requests[i + 1].start = requests[i].end

(***************************************************************************)
(* Properties of the range normalisation, checked under SpecRanges         *)
(***************************************************************************)
\* api_client.fetch_logs has normalised its range
Normalised == fpc \in {"loop", "returned"} \/ (fpc = "raised" /\ ferror.type = "RuntimeError")

\* transaction_utils.fetch_logs has normalised its range
LocalNormalised == lpc \in {"returned", "raised_RuntimeError"}

\* C33: after either fetch_logs has normalised its range, start <= end and
\* end - start <= MAX_LOOKBACK, and the two ends are the given times in
\* ascending order unless the lookback limit moved one; api_client.fetch_logs
\* returns the clamped end as end_time, and each of its requests lies
\* inside [start_time, end_time].
C33_RangeNormalised ==
    /\ Normalised =>
          /\ start_time <= end_time
          /\ end_time - start_time <= MAX_LOOKBACK
          /\ start_time = Min(args[1], EffectiveEnd(args[2]))
          /\ end_time \in {Max(args[1], EffectiveEnd(args[2])),
                           start_time + MAX_LOOKBACK}
          /\ \A i \in 1..Len(requests) :
                /\ start_time <= requests[i].start
                /\ requests[i].start <= requests[i].end
                /\ requests[i].end <= end_time
    /\ Returned => fresult.end_time = end_time
    /\ LocalNormalised =>
          /\ local_request[1] <= local_request[2]
          /\ local_request[2] - local_request[1] <= MAX_LOOKBACK
          /\ local_request[2] = Max(local_call.start_time, local_call.end_time)
          /\ local_request[1] \in {Min(local_call.start_time, local_call.end_time),
                                   local_request[2] - MAX_LOOKBACK}

\* an inverted range was swapped and queried
C33_Witness ==
    /\ Returned /\ requests # <<>>
    /\ args[2] # NoneT /\ args[1] > args[2]
    /\ start_time = args[2] /\ fresult.end_time = args[1]

(***************************************************************************)
(* Properties of api_client.fetch_logs, checked under SpecFetch            *)
(* (order of the requests)                                                 *)
(***************************************************************************)
StartsIncrease(reqs) ==
    \A i \in 1..(Len(reqs) - 1) : reqs[i + 1].start > reqs[i].start

\* C34: the requests of one call are issued in increasing time order, each
\* starting strictly later than the one before it, and no pass through the
\* loop moves current_start back.
C34_RequestsInTimeOrder ==
    [][/\ StartsIncrease(requests')
       /\ fpc = "loop" => current_start' >= current_start]_vars

\* a page with lines moved the start to its latest timestamp, where the
\* next request began
C34_Witness ==
    \E i \in 1..(Len(requests) - 1) :
        /\ requests[i].got > 0
        /\ requests[i].page_max > requests[i].start
        /\ requests[i + 1].start = requests[i].page_max

(***************************************************************************)
(* Properties of the classification of step 4, checked under SpecClassify  *)
(* (continued)                                                             *)
(***************************************************************************)
\* the sub-object of the answer for a leg
LegOf(p, role) == IF role = "source" THEN p.source_swap ELSE p.destination_swap

\* the matched-order answer shows the event on the leg
ObservedOnLeg(p, role, event) ==
    IF event = "initiated" THEN ConfirmedInitiation(LegOf(p, role))
    ELSE HasHash(LegOf(p, role), "redeem_tx_hash")

\* the classifier's flag for a party and an event
FlagOf(f, party, event) ==
    CASE party = "user" /\ event = "initiated" -> f.user_initiated
      [] party = "cobi" /\ event = "initiated" -> f.cobi_initiated
      [] party = "user" /\ event = "redeemed" -> f.user_redeemed
      [] OTHER -> f.cobi_redeemed

\* C35: the classifier attributes an initiation or a redeem on a leg to the
\* party that the interpretation rules of the summarizer prompt name for
\* that leg.
C35_LegPartyMappingShared ==
    (Classified /\ SuccessWithPayload(matched_order_result)) =>
        \A rule \in InterpretationRules :
            ObservedOnLeg(matched_order_result, rule.role, rule.event)
                => FlagOf(flags, rule.party, rule.event)

AnySideFlag(f) ==
    \/ f.user_initiated \/ f.cobi_initiated
    \/ f.user_redeemed \/ f.cobi_redeemed
    \/ f.user_refunded \/ f.cobi_refunded

\* C36: whatever the matched-order answer is and however its classification
\* ends, a true initiated, redeemed or refunded flag of either side
\* comes with a true is_matched.
C36_SideFlagImpliesMatched ==
    /\ AnySideFlag(flags) => flags.is_matched
    /\ AnySideFlag(flipped_flags) => flipped_flags.is_matched

\* Cobi's flags are set from destination_swap while the answer has no
\* source_swap
C36_Witness ==
    /\ Classified
    /\ matched_order_result.source_swap.kind = "absent"
    /\ flags.cobi_initiated /\ flags.cobi_redeemed /\ flags.is_matched
    /\ ~flags.user_initiated

(***************************************************************************)
(* Properties of transaction_status, checked under Spec (the bit-ponder    *)
(* fetch)                                                                  *)
(***************************************************************************)
IsBitPonderFetch(call) ==
    call.op = "logs" /\ call.container = BIT_PONDER_CONTAINER

\* C37: a fetch of the bit-ponder logs comes after the matched-order API
\* call, whose answer showed a confirmed initiation on source_swap, and
\* after a positive order-creation check on the EVM relay logs; the chains
\* of the order play no part.
C37_BitPonderOnlyAfterUserInitiated ==
    \A k \in 1..Len(calls) :
        IsBitPonderFetch(calls[k]) =>
            /\ \E j \in 1..(k - 1) : calls[j].op = "matched_api"
            /\ PayloadOk(matched_order_result)
            /\ ConfirmedInitiation(matched_order_result.source_swap)
            /\ create_order_success
            /\ \E j \in 1..(k - 1) :
                  calls[j].op = "logs" /\ calls[j].container = EVM_RELAY_CONTAINER

\* the bit-ponder logs were fetched for an order between two chains that
\* are not bitcoin
C37_Witness ==
    /\ Finished
    /\ \E k \in 1..Len(calls) : IsBitPonderFetch(calls[k])
    /\ source_chain = "arbitrum_sepolia" /\ destination_chain = "arbitrum_sepolia"
    /\ flags.user_initiated

(***************************************************************************)
(* Properties of api_client.fetch_logs, checked under SpecFetch            *)
(* (short windows)                                                         *)
(***************************************************************************)
WindowOf(r) == r.end - r.start

\* the loop is about to handle a window shorter than MIN_WINDOW_SECONDS
AtShortWindow ==
    /\ fpc = "loop" /\ LoopCond
    /\ Min(current_start + WINDOW_SECONDS, end_time) - current_start < 60

\* C38: no request covers less than 60 seconds; at a window shorter than
\* that the loop issues no request and moves to the window's end; a call
\* whose normalised range is shorter than 60 seconds returns without any
\* request, with an empty raw_log_list and 'No logs found.' as raw_logs.
C38_NoShortWindowQueried ==
    [][/\ MIN_WINDOW_SECONDS = 60
       /\ \A i \in 1..Len(requests') : WindowOf(requests'[i]) >= 60
       /\ AtShortWindow =>
              /\ requests' = requests
              /\ current_start' = Min(current_start + WINDOW_SECONDS, end_time)
       /\ (fpc' = "returned" /\ end_time' - start_time' < 60) =>
              /\ requests' = <<>>
              /\ fresult'.raw_log_list = <<>>
              /\ fresult'.raw_logs = << "No logs found." >>]_vars

\* a call has queried its first window and returned after skipping a
\* remainder of less than 60 seconds
C38_Witness ==
    /\ Returned /\ requests # <<>>
    /\ requests[Len(requests)].end < end_time
    /\ end_time - requests[Len(requests)].end < 60
    /\ current_start = end_time

(***************************************************************************)
(* Properties of the relevance filter, checked under SpecFilter            *)
(* (continued)                                                             *)
(***************************************************************************)
\* a is b with some of its elements left out
RECURSIVE IsSubsequence(_, _)
IsSubsequence(a, b) ==
    IF a = <<>> THEN TRUE
    ELSE IF b = <<>> THEN FALSE
    ELSE IF Head(a) = Head(b) THEN IsSubsequence(Tail(a), Tail(b))
    ELSE IsSubsequence(a, Tail(b))

\* the filter applied with the identifiers of the call
Refiltered(logs) ==
    FilteredLogs(logs, filter_args.create_id, filter_args.source_swap_id,
                 filter_args.destination_swap_id)

\* C39: the lines the filter keeps are a subsequence of the lines it was
\* given, and the filter applied to them again with the same identifiers
\* keeps them all, in the same order.
C39_FilterOrderPreservingIdempotent ==
    FilterReturned =>
        /\ IsSubsequence(filtered_logs, filter_args.logs)
        /\ Refiltered(filtered_logs) = filtered_logs

\* two different lines were kept
C39_Witness ==
    /\ FilterReturned
    /\ Len(filtered_logs) = 2 /\ filtered_logs[1] # filtered_logs[2]

=============================================================================
